---- MODULE Spec2Model ----
(***************************************************************************)
(* The calculator of src/src/App.tsx: the reducer calculatorReducer over   *)
(* CalculatorState and its helper calculate.                               *)
(*                                                                         *)
(* A JavaScript string is a sequence of one-character strings, so that     *)
(* includes, length, slice and template concatenation are computed on the  *)
(* characters.  A JavaScript number is a record: NaN, a multiple of 1/8    *)
(* (field v counts eighths; sums, differences, products and quotients of   *)
(* such values are exact in binary floating point when the result is again *)
(* a multiple of 1/8 of small magnitude), or a finite non-zero number      *)
(* that is no multiple of 1/8 ("other"), on which arithmetic is outside    *)
(* the modelled range.                                                     *)
(***************************************************************************)
EXTENDS Integers, Sequences, FiniteSets, TLC

VARIABLES currentValue, previousValue, operation, overwrite, lastAction

vars == <<currentValue, previousValue, operation, overwrite, lastAction>>

\* ---- bounds of the model ------------------------------------------------
\* longest currentValue the digit keys may build
MaxLen == 2
\* largest magnitude of a computed result
MaxAbs == 12

\* ---- the input alphabet --------------------------------------------------
DigitChars == {"0", "1", "2", "3", "4", "5", "6", "7", "8", "9"}
\* the digit payloads the model dispatches (a subset of the keys 0-9 and .)
Digits == {"0", "2", "5", "."}
Operations == {"+", "-", "×", "÷"}
null == "null"

ErrorStr == <<"E", "r", "r", "o", "r">>
ZeroStr == <<"0">>

\* ---- CalculatorState -----------------------------------------------------
CalculatorState == [currentValue : Seq(STRING), previousValue : Seq(STRING),
                    operation : Operations \cup {null}, overwrite : BOOLEAN]

initialState ==
  [currentValue |-> <<"0">>, previousValue |-> <<>>,
   operation |-> null, overwrite |-> TRUE]

\* the state the program is in, as one record
State ==
  [currentValue |-> currentValue, previousValue |-> previousValue,
   operation |-> operation, overwrite |-> overwrite]

\* ---- JavaScript string helpers -------------------------------------------
\* String.prototype.includes for a one-character needle
includes(s, c) == \E i \in 1..Len(s) : s[i] = c

\* String.prototype.slice(0, -1)
sliceLast(s) == SubSeq(s, 1, Len(s) - 1)

\* ---- parseFloat ----------------------------------------------------------
DigitVal(c) ==
  CASE c = "0" -> 0 [] c = "1" -> 1 [] c = "2" -> 2 [] c = "3" -> 3
    [] c = "4" -> 4 [] c = "5" -> 5 [] c = "6" -> 6 [] c = "7" -> 7
    [] c = "8" -> 8 [] c = "9" -> 9

\* length of the run of decimal digits of s that starts at position i
RECURSIVE DigitRun(_, _)
DigitRun(s, i) ==
  IF i > Len(s) \/ s[i] \notin DigitChars THEN 0 ELSE 1 + DigitRun(s, i + 1)

\* the natural number a sequence of decimal digits denotes
RECURSIVE DigitsToNat(_)
DigitsToNat(ds) ==
  IF ds = <<>> THEN 0
  ELSE 10 * DigitsToNat(SubSeq(ds, 1, Len(ds) - 1)) + DigitVal(ds[Len(ds)])

RECURSIVE Pow10(_)
Pow10(k) == IF k = 0 THEN 1 ELSE 10 * Pow10(k - 1)

\* the numbers: NaN, v/8, or a finite non-zero number that is not modelled
NaN == [kind |-> "NaN"]
Other == [kind |-> "other"]
Num(v) == [kind |-> "num", v |-> v]

\* parseFloat: the longest prefix  [+-] digits [. digits]  with at least one
\* digit, NaN when there is none ("Error", ".", "").
parseFloat(s) ==
  LET signed == Len(s) >= 1 /\ s[1] \in {"-", "+"}
      neg == Len(s) >= 1 /\ s[1] = "-"
      b == IF signed THEN 2 ELSE 1
      ni == DigitRun(s, b)
      dot == b + ni <= Len(s) /\ s[b + ni] = "."
      nf == IF dot THEN DigitRun(s, b + ni + 1) ELSE 0
      ip == DigitsToNat(SubSeq(s, b, b + ni - 1))
      fp == DigitsToNat(SubSeq(s, b + ni + 1, b + ni + nf))
      sgn == IF neg THEN -1 ELSE 1
  IN  IF ni + nf = 0 THEN NaN
      ELSE IF (fp * 8) % Pow10(nf) = 0
           THEN Num(sgn * (8 * ip + (fp * 8) \div Pow10(nf)))
           ELSE Other

isNaN(n) == n.kind = "NaN"

\* ---- Number.prototype.toString -------------------------------------------
RECURSIVE NatToString(_)
NatToString(n) ==
  IF n < 10 THEN <<CHOOSE c \in DigitChars : DigitVal(c) = n>>
  ELSE NatToString(n \div 10) \o NatToString(n % 10)

\* drops the trailing zeros of a digit sequence (the fraction digits of f/8,
\* 0 < f < 8, are those of f * 125 without the trailing zeros)
RECURSIVE StripZeros(_)
StripZeros(ds) ==
  IF ds # <<>> /\ ds[Len(ds)] = "0" THEN StripZeros(SubSeq(ds, 1, Len(ds) - 1))
  ELSE ds

Abs(n) == IF n < 0 THEN -n ELSE n

\* the string of a number whose digits are not modelled
UnmodelledStr == <<"#">>

\* the decimal string of v/8 (-0 and 0 both print as "0")
toString(n) ==
  IF n.kind # "num" THEN UnmodelledStr
  ELSE LET a == Abs(n.v)
           ip == a \div 8
           f == a % 8
           body == IF f = 0 THEN NatToString(ip)
                   ELSE NatToString(ip) \o <<".">>
                          \o StripZeros(Tail(NatToString(1000 + f * 125)))
       IN  IF n.v < 0 THEN <<"-">> \o body ELSE body

\* ---- calculate -----------------------------------------------------------
Sign(n) == IF n < 0 THEN -1 ELSE 1

\* prev op current in floating point, for an op of Operations: the exact
\* result when both operands and the result are multiples of 1/8, Other
\* when it is outside these values
Arith(op, prev, current) ==
  LET p == prev.v
      c == current.v
  IN  IF prev.kind # "num" \/ current.kind # "num" THEN Other
      ELSE CASE op = "+" -> Num(p + c)
             [] op = "-" -> Num(p - c)
             [] op = "×" -> IF (Abs(p) * Abs(c)) % 8 = 0
                            THEN Num(Sign(p) * Sign(c) * ((Abs(p) * Abs(c)) \div 8))
                            ELSE Other
             [] op = "÷" -> IF c # 0 /\ (8 * Abs(p)) % Abs(c) = 0
                            THEN Num(Sign(p) * Sign(c) * ((8 * Abs(p)) \div Abs(c)))
                            ELSE Other

\* current === 0
IsZero(n) == n.kind = "num" /\ n.v = 0

calculate(state) ==
  LET prev == parseFloat(state.previousValue)
      current == parseFloat(state.currentValue)
  IN  IF isNaN(prev) \/ isNaN(current) THEN ZeroStr
      ELSE CASE state.operation \in {"+", "-", "×"} ->
                  toString(Arith(state.operation, prev, current))
             [] state.operation = "÷" ->
                  IF IsZero(current) THEN ErrorStr
                  ELSE toString(Arith("÷", prev, current))
             [] OTHER -> ZeroStr

\* calculate(state) stays within the modelled numbers, of magnitude at most m
CalcInRange(state, m) ==
  LET prev == parseFloat(state.previousValue)
      current == parseFloat(state.currentValue)
      r == Arith(state.operation, prev, current)
  IN  \/ isNaN(prev) \/ isNaN(current)
      \/ state.operation \notin Operations
      \/ state.operation = "÷" /\ IsZero(current)
      \/ r.kind = "num" /\ Abs(r.v) <= 8 * m

\* ---- calculatorReducer ---------------------------------------------------
\* ADD_DIGIT without the check for a second decimal point
ADD_DIGIT_NoDotGuard(state, payload) ==
  IF state.overwrite
  THEN [state EXCEPT !.currentValue = <<payload>>, !.overwrite = FALSE]
  ELSE [state EXCEPT !.currentValue =
          IF state.currentValue = ZeroStr /\ payload # "."
          THEN <<payload>>
          ELSE state.currentValue \o <<payload>>]

\* ADD_DIGIT that appends to a currentValue of "0"
ADD_DIGIT_KeepsLeadingZero(state, payload) ==
  IF state.overwrite
  THEN [state EXCEPT !.currentValue = <<payload>>, !.overwrite = FALSE]
  ELSE IF payload = "." /\ includes(state.currentValue, ".")
  THEN state
  ELSE [state EXCEPT !.currentValue = state.currentValue \o <<payload>>]

\* ADD_DIGIT that ignores overwrite and always extends currentValue
ADD_DIGIT_IgnoresOverwrite(state, payload) ==
  IF payload = "." /\ includes(state.currentValue, ".")
  THEN state
  ELSE [state EXCEPT !.currentValue =
          IF state.currentValue = ZeroStr /\ payload # "."
          THEN <<payload>>
          ELSE state.currentValue \o <<payload>>]

ADD_DIGIT(state, payload) ==
  IF state.overwrite
  THEN [state EXCEPT !.currentValue = <<payload>>, !.overwrite = FALSE]
  ELSE IF payload = "." /\ includes(state.currentValue, ".")
  THEN state
  ELSE [state EXCEPT !.currentValue =
          IF state.currentValue = ZeroStr /\ payload # "."
          THEN <<payload>>
          ELSE state.currentValue \o <<payload>>]

\* CHOOSE_OPERATION that replaces a pending operator without evaluating it
CHOOSE_OPERATION_NoFold(state, payload) ==
  IF state.currentValue = ZeroStr /\ state.previousValue = <<>>
  THEN state
  ELSE IF state.previousValue = <<>>
  THEN [state EXCEPT !.operation = payload,
                     !.previousValue = state.currentValue,
                     !.currentValue = ZeroStr,
                     !.overwrite = TRUE]
  ELSE IF state.operation # null
  THEN [state EXCEPT !.operation = payload]
  ELSE state

\* CHOOSE_OPERATION without the check that something was entered
CHOOSE_OPERATION_NoEmptyGuard(state, payload) ==
  IF state.previousValue = <<>>
  THEN [state EXCEPT !.operation = payload,
                     !.previousValue = state.currentValue,
                     !.currentValue = ZeroStr,
                     !.overwrite = TRUE]
  ELSE IF state.operation # null
  THEN [state EXCEPT !.previousValue = calculate(state),
                     !.operation = payload,
                     !.currentValue = ZeroStr,
                     !.overwrite = TRUE]
  ELSE state

\* CHOOSE_OPERATION whose first-operator branch keeps currentValue
CHOOSE_OPERATION_KeepsCurrent(state, payload) ==
  IF state.currentValue = ZeroStr /\ state.previousValue = <<>>
  THEN state
  ELSE IF state.previousValue = <<>>
  THEN [state EXCEPT !.operation = payload,
                     !.previousValue = state.currentValue,
                     !.overwrite = TRUE]
  ELSE IF state.operation # null
  THEN [state EXCEPT !.previousValue = calculate(state),
                     !.operation = payload,
                     !.currentValue = ZeroStr,
                     !.overwrite = TRUE]
  ELSE state

CHOOSE_OPERATION(state, payload) ==
  IF state.currentValue = ZeroStr /\ state.previousValue = <<>>
  THEN state
  ELSE IF state.previousValue = <<>>
  THEN [state EXCEPT !.operation = payload,
                     !.previousValue = state.currentValue,
                     !.currentValue = ZeroStr,
                     !.overwrite = TRUE]
  ELSE IF state.operation # null
  THEN [state EXCEPT !.previousValue = calculate(state),
                     !.operation = payload,
                     !.currentValue = ZeroStr,
                     !.overwrite = TRUE]
  ELSE state

\* CLEAR that resets the display and keeps the pending operation
CLEAR_KeepsPending(state) ==
  [state EXCEPT !.currentValue = ZeroStr, !.overwrite = TRUE]

CLEAR(state) == initialState

\* DELETE without the check for a one-character currentValue
DELETE_NoLengthCheck(state) ==
  IF state.overwrite
  THEN [state EXCEPT !.currentValue = ZeroStr, !.overwrite = TRUE]
  ELSE [state EXCEPT !.currentValue = sliceLast(state.currentValue)]

\* DELETE whose overwrite branch clears the overwrite flag
DELETE_ClearsOverwrite(state) ==
  IF state.overwrite
  THEN [state EXCEPT !.currentValue = ZeroStr, !.overwrite = FALSE]
  ELSE IF Len(state.currentValue) = 1
  THEN [state EXCEPT !.currentValue = ZeroStr, !.overwrite = TRUE]
  ELSE [state EXCEPT !.currentValue = sliceLast(state.currentValue)]

\* DELETE whose overwrite branch resets the whole state
DELETE_ClearsPending(state) ==
  IF state.overwrite
  THEN initialState
  ELSE IF Len(state.currentValue) = 1
  THEN [state EXCEPT !.currentValue = ZeroStr, !.overwrite = TRUE]
  ELSE [state EXCEPT !.currentValue = sliceLast(state.currentValue)]

DELETE(state) ==
  IF state.overwrite
  THEN [state EXCEPT !.currentValue = ZeroStr, !.overwrite = TRUE]
  ELSE IF Len(state.currentValue) = 1
  THEN [state EXCEPT !.currentValue = ZeroStr, !.overwrite = TRUE]
  ELSE [state EXCEPT !.currentValue = sliceLast(state.currentValue)]

\* EVALUATE without the check for a currentValue of "0"
EVALUATE_NoZeroGuard(state) ==
  IF state.operation = null \/ state.previousValue = <<>>
  THEN state
  ELSE [state EXCEPT !.previousValue = <<>>,
                     !.operation = null,
                     !.currentValue = calculate(state),
                     !.overwrite = TRUE]

\* EVALUATE that leaves operation undefined instead of null
EVALUATE_OperationUndefined(state) ==
  IF state.operation = null \/ state.previousValue = <<>>
     \/ state.currentValue = ZeroStr
  THEN state
  ELSE [state EXCEPT !.previousValue = <<>>,
                     !.operation = "undefined",
                     !.currentValue = calculate(state),
                     !.overwrite = TRUE]

\* EVALUATE that does not set overwrite
EVALUATE_KeepsOverwrite(state) ==
  IF state.operation = null \/ state.previousValue = <<>>
     \/ state.currentValue = ZeroStr
  THEN state
  ELSE [state EXCEPT !.previousValue = <<>>,
                     !.operation = null,
                     !.currentValue = calculate(state)]

\* EVALUATE that does not clear operation
EVALUATE_KeepsOperation(state) ==
  IF state.operation = null \/ state.previousValue = <<>>
     \/ state.currentValue = ZeroStr
  THEN state
  ELSE [state EXCEPT !.previousValue = <<>>,
                     !.currentValue = calculate(state),
                     !.overwrite = TRUE]

\* EVALUATE that keeps the pending operand and operation
EVALUATE_KeepsPending(state) ==
  IF state.operation = null \/ state.previousValue = <<>>
     \/ state.currentValue = ZeroStr
  THEN state
  ELSE [state EXCEPT !.currentValue = calculate(state),
                     !.overwrite = TRUE]

EVALUATE(state) ==
  IF state.operation = null \/ state.previousValue = <<>>
     \/ state.currentValue = ZeroStr
  THEN state
  ELSE [state EXCEPT !.previousValue = <<>>,
                     !.operation = null,
                     !.currentValue = calculate(state),
                     !.overwrite = TRUE]

\* CalculatorAction
AddDigitEv(d) == [type |-> "ADD_DIGIT", payload |-> d]
ChooseEv(op) == [type |-> "CHOOSE_OPERATION", payload |-> op]
ClearEv == [type |-> "CLEAR"]
DeleteEv == [type |-> "DELETE"]
EvaluateEv == [type |-> "EVALUATE"]

calculatorReducer(state, action) ==
  CASE action.type = "ADD_DIGIT" -> ADD_DIGIT(state, action.payload)
    [] action.type = "CHOOSE_OPERATION" -> CHOOSE_OPERATION(state, action.payload)
    [] action.type = "CLEAR" -> CLEAR(state)
    [] action.type = "DELETE" -> DELETE(state)
    [] action.type = "EVALUATE" -> EVALUATE(state)
    [] OTHER -> state

\* the reducer call calls calculate
CallsCalculate(state, action) ==
  \/ /\ action.type = "CHOOSE_OPERATION"
     /\ state.previousValue # <<>>
     /\ state.operation # null
  \/ /\ action.type = "EVALUATE"
     /\ ~(state.operation = null \/ state.previousValue = <<>>
          \/ state.currentValue = ZeroStr)

\* the numbers the reducer call computes are modelled
Computable(state, action) ==
  CallsCalculate(state, action) => CalcInRange(state, MaxAbs)

\* the reducer call stays within the bounds of the model
InBounds(state, action) ==
  /\ Computable(state, action)
  /\ action.type = "ADD_DIGIT" =>
       Len(ADD_DIGIT(state, action.payload).currentValue) <= MaxLen

\* ---- the state machine: useReducer(calculatorReducer, initialState) ------
Init ==
  /\ currentValue = initialState.currentValue
  /\ previousValue = initialState.previousValue
  /\ operation = initialState.operation
  /\ overwrite = initialState.overwrite
  /\ lastAction = [type |-> "NONE"]

\* dispatch(action): the state becomes calculatorReducer(state, action)
Becomes(s) ==
  /\ currentValue' = s.currentValue
  /\ previousValue' = s.previousValue
  /\ operation' = s.operation
  /\ overwrite' = s.overwrite

\* the handlers of the keys and buttons; lastAction keeps the action that
\* was dispatched last
AddDigit ==
  \E d \in Digits :
    /\ InBounds(State, AddDigitEv(d))
    /\ Becomes(calculatorReducer(State, AddDigitEv(d)))
    /\ lastAction' = AddDigitEv(d)

ChooseOperation ==
  \E op \in Operations :
    /\ InBounds(State, ChooseEv(op))
    /\ Becomes(calculatorReducer(State, ChooseEv(op)))
    /\ lastAction' = ChooseEv(op)

Clear ==
  /\ Becomes(calculatorReducer(State, ClearEv))
  /\ lastAction' = ClearEv

Delete ==
  /\ Becomes(calculatorReducer(State, DeleteEv))
  /\ lastAction' = DeleteEv

Evaluate ==
  /\ InBounds(State, EvaluateEv)
  /\ Becomes(calculatorReducer(State, EvaluateEv))
  /\ lastAction' = EvaluateEv

Next == AddDigit \/ ChooseOperation \/ Clear \/ Delete \/ Evaluate

Spec == Init /\ [][Next]_vars

\* the events the model dispatches
Events ==
  {AddDigitEv(d) : d \in Digits} \cup {ChooseEv(op) : op \in Operations}
    \cup {ClearEv, DeleteEv, EvaluateEv}

\* every event of the input surface: the keys 0-9 and ., the four operators
\* and the three commands
AllEvents ==
  {AddDigitEv(d) : d \in DigitChars \cup {"."}}
    \cup {ChooseEv(op) : op \in Operations}
    \cup {ClearEv, DeleteEv, EvaluateEv}

\* the state after dispatching the events evs, in order, from state
RECURSIVE Run(_, _)
Run(state, evs) ==
  IF evs = <<>> THEN state
  ELSE Run(calculatorReducer(state, Head(evs)), Tail(evs))

\* ---- predicates on strings used by the properties ------------------------
\* s is a decimal numeric literal:  [-] digits [. digits]  with at least one
\* digit and nothing after it
IsNumericLiteral(s) ==
  LET b == IF Len(s) >= 1 /\ s[1] = "-" THEN 2 ELSE 1
      ni == DigitRun(s, b)
      dot == b + ni <= Len(s) /\ s[b + ni] = "."
      nf == IF dot THEN DigitRun(s, b + ni + 1) ELSE 0
  IN  /\ ni + nf >= 1
      /\ (b - 1) + ni + (IF dot THEN 1 ELSE 0) + nf = Len(s)

\* the number of decimal points of s
CountDots(s) == Cardinality({i \in 1..Len(s) : s[i] = "."})

\* s is a string of characters
IsString(s) == \A i \in 1..Len(s) : s[i] \in STRING

\* ---- C1 ------------------------------------------------------------------
\* C1: Digit(5), ChooseOperation(÷), Digit(0), Evaluate from the initial
\* state ends with currentValue "Error"; and so for any non-zero left operand:
\* in the state reached by entering a non-zero operand, choosing ÷ and
\* pressing 0, Evaluate yields currentValue "Error".
C1_DivisionByZeroYieldsError ==
  ( /\ lastAction = AddDigitEv("0")
    /\ operation = "÷"
    /\ parseFloat(previousValue).kind = "num"
    /\ parseFloat(previousValue).v # 0
    /\ currentValue = <<"0">>
    /\ ~overwrite )
  => /\ EVALUATE(State).currentValue = <<"E", "r", "r", "o", "r">>
     /\ Run(initialState, <<AddDigitEv("5"), ChooseEv("÷"), AddDigitEv("0"),
                            EvaluateEv>>).currentValue
          = <<"E", "r", "r", "o", "r">>

\* ---- C2 ------------------------------------------------------------------
\* C2: in every reachable state currentValue is a numeric literal string or
\* the error marker "Error" (never the bare "." and never empty).
C2_CurrentValueIsNumericOrError ==
  \/ IsNumericLiteral(currentValue)
  \/ currentValue = <<"E", "r", "r", "o", "r">>

\* ---- C3 ------------------------------------------------------------------
\* C3: in every reachable state previousValue is the empty string or a
\* string-encoded decimal number, never "Error" or another non-numeric
\* string.
C3_PreviousValueIsNumericOrEmpty ==
  \/ previousValue = <<>>
  \/ IsNumericLiteral(previousValue)

\* a syntactically valid CalculatorState: the four fields, two strings, an
\* operator or null, a boolean
IsValidState(s) ==
  /\ DOMAIN s = {"currentValue", "previousValue", "operation", "overwrite"}
  /\ IsString(s.currentValue)
  /\ IsString(s.previousValue)
  /\ s.operation \in Operations \cup {null}
  /\ s.overwrite \in BOOLEAN

\* ---- C4 ------------------------------------------------------------------
\* C4: Clear yields exactly the initial state (currentValue "0",
\* previousValue "", operation absent, overwrite true) from every reachable
\* state, and Clear applied twice equals Clear applied once.
C4_ClearYieldsInitialState ==
  LET initial == [currentValue |-> <<"0">>, previousValue |-> <<>>,
                  operation |-> null, overwrite |-> TRUE]
  IN  /\ lastAction = ClearEv => State = initial
      /\ calculatorReducer(State, ClearEv) = initial
      /\ Run(State, <<ClearEv, ClearEv>>) = Run(State, <<ClearEv>>)

\* Clear has just been dispatched
C4_Witness ==
  /\ lastAction = ClearEv
  /\ currentValue = <<"0">> /\ previousValue = <<>>
  /\ operation = null /\ overwrite

\* ---- C5 ------------------------------------------------------------------
\* C5: the transition is total: in every reachable state every event is
\* accepted and yields a state with the four fields defined, operation one of
\* + - × ÷ or absent and overwrite a boolean.
C5_TransitionIsTotal ==
  /\ IsValidState(State)
  /\ \A e \in AllEvents :
       Computable(State, e) => IsValidState(calculatorReducer(State, e))

\* a state-changing Evaluate has just been dispatched
C5_Witness ==
  /\ lastAction = EvaluateEv
  /\ operation = null
  /\ currentValue \notin {<<"0">>, <<"E", "r", "r", "o", "r">>}
  /\ overwrite

\* ---- C6 ------------------------------------------------------------------
\* C6: operator chaining folds left to right: 2 + 3 × 4 = evaluates to "20";
\* ChooseOperation(op2) with an operation pending sets previousValue to the
\* value of the pending operation, operation to op2, currentValue to "0" and
\* overwrite to true.
C6_ChainingFoldsLeft ==
  /\ Run(initialState, <<AddDigitEv("2"), ChooseEv("+"), AddDigitEv("3"),
                         ChooseEv("×"), AddDigitEv("4"), EvaluateEv>>).currentValue
       = <<"2", "0">>
  /\ operation # null =>
       \A op2 \in Operations :
         Computable(State, ChooseEv(op2)) =>
           calculatorReducer(State, ChooseEv(op2))
             = [currentValue |-> <<"0">>, previousValue |-> calculate(State),
                operation |-> op2, overwrite |-> TRUE]

\* 2 + 5 has been folded into the left operand 7 of a pending ×
C6_Witness ==
  /\ lastAction = ChooseEv("×")
  /\ previousValue = <<"7">>
  /\ operation = "×"
  /\ currentValue = <<"0">> /\ overwrite

\* ---- C7 ------------------------------------------------------------------
\* C7: Evaluate returns the state unchanged whenever operation is absent, or
\* previousValue is "", or currentValue is exactly "0".
C7_EvaluateNoOp ==
  (operation = null \/ previousValue = <<>> \/ currentValue = <<"0">>)
    => calculatorReducer(State, EvaluateEv) = State

\* Evaluate was dispatched with an operation pending and "0" typed, and
\* changed nothing
C7_Witness ==
  /\ lastAction = EvaluateEv
  /\ operation # null /\ previousValue # <<>>
  /\ currentValue = <<"0">> /\ ~overwrite

\* ---- C8 ------------------------------------------------------------------
\* C8: ChooseOperation(op) on a state with currentValue "0" and previousValue
\* "" leaves the whole state unchanged, for every op and either overwrite.
C8_ChooseOperationNoOp ==
  /\ (currentValue = <<"0">> /\ previousValue = <<>>) =>
       \A op \in Operations : calculatorReducer(State, ChooseEv(op)) = State
  /\ \A op \in Operations, ow \in BOOLEAN, pending \in Operations \cup {null} :
       LET s == [currentValue |-> <<"0">>, previousValue |-> <<>>,
                 operation |-> pending, overwrite |-> ow]
       IN  calculatorReducer(s, ChooseEv(op)) = s

\* an operator was chosen after typing 0 and changed nothing
C8_Witness ==
  /\ lastAction.type = "CHOOSE_OPERATION"
  /\ currentValue = <<"0">> /\ previousValue = <<>>
  /\ operation = null /\ ~overwrite

\* ---- C9 ------------------------------------------------------------------
\* C9: duplicate decimal points are rejected: 1 . . 2 yields "1.2"; Digit(.)
\* with overwrite false and a decimal point in currentValue leaves the state
\* unchanged; currentValue never holds more than one decimal point.
C9_DuplicatePointRejected ==
  /\ Run(initialState, <<AddDigitEv("1"), AddDigitEv("."), AddDigitEv("."),
                         AddDigitEv("2")>>).currentValue = <<"1", ".", "2">>
  /\ (~overwrite /\ includes(currentValue, ".")) =>
       calculatorReducer(State, AddDigitEv(".")) = State
  /\ CountDots(currentValue) <= 1

\* a decimal point was dispatched and rejected: currentValue does not end
\* with it
C9_Witness ==
  /\ lastAction = AddDigitEv(".")
  /\ ~overwrite
  /\ includes(currentValue, ".")
  /\ currentValue[Len(currentValue)] # "."

\* ---- C10 -----------------------------------------------------------------
\* C10: Delete from the initial state leaves currentValue "0"; with overwrite
\* false and two or more characters it removes exactly the last character
\* ("12" becomes "1"); with overwrite true or exactly one character it sets
\* currentValue to "0" and overwrite to true.
C10_DeleteBoundary ==
  /\ Run(initialState, <<DeleteEv>>).currentValue = <<"0">>
  /\ Run(initialState, <<AddDigitEv("1"), AddDigitEv("2"), DeleteEv>>).currentValue
       = <<"1">>
  /\ LET s == Run(initialState, <<AddDigitEv("1"), AddDigitEv("2"), DeleteEv,
                                  DeleteEv>>)
     IN  s.currentValue = <<"0">> /\ s.overwrite
  /\ (~overwrite /\ Len(currentValue) >= 2) =>
       calculatorReducer(State, DeleteEv)
         = [State EXCEPT !.currentValue =
              SubSeq(currentValue, 1, Len(currentValue) - 1)]
  /\ (overwrite \/ Len(currentValue) = 1) =>
       LET s == calculatorReducer(State, DeleteEv)
       IN  s.currentValue = <<"0">> /\ s.overwrite

\* Delete removed the last of two characters
C10_Witness ==
  /\ lastAction = DeleteEv
  /\ ~overwrite
  /\ Len(currentValue) = 1

\* s begins with "0" immediately followed by another digit
HasLeadingZero(s) ==
  Len(s) >= 2 /\ s[1] = "0" /\ s[2] \in DigitChars

\* ---- C11 -----------------------------------------------------------------
\* C11: leading zeros are suppressed: Digit(0), Digit(5) from the initial
\* state yields currentValue "5"; in every reachable state currentValue never
\* begins with "0" immediately followed by another digit.
C11_NoLeadingZero ==
  /\ Run(initialState, <<AddDigitEv("0"), AddDigitEv("5")>>).currentValue
       = <<"5">>
  /\ ~HasLeadingZero(currentValue)
  /\ \A d \in DigitChars :
       (~overwrite /\ currentValue = <<"0">>) =>
         calculatorReducer(State, AddDigitEv(d)).currentValue = <<d>>

\* the digit 5 stands alone as the right operand of a pending ÷, as after
\* the keys 0 and 5
C11_Witness ==
  /\ lastAction = AddDigitEv("5")
  /\ currentValue = <<"5">>
  /\ ~overwrite
  /\ operation = "÷"

\* ---- C12 -----------------------------------------------------------------
\* C12: 7 + 3 = yields currentValue "10" and a following Digit(2) yields "2";
\* after any state-changing ChooseOperation, any state-changing Evaluate and
\* any Clear, overwrite is true and the next Digit(d) sets currentValue to
\* exactly d and overwrite to false.
C12_OverwriteAfterResult ==
  /\ Run(initialState, <<AddDigitEv("7"), ChooseEv("+"), AddDigitEv("3"),
                         EvaluateEv>>).currentValue = <<"1", "0">>
  /\ Run(initialState, <<AddDigitEv("7"), ChooseEv("+"), AddDigitEv("3"),
                         EvaluateEv, AddDigitEv("2")>>).currentValue = <<"2">>
  /\ lastAction = ClearEv => overwrite
  /\ \A e \in {ChooseEv(op) : op \in Operations} \cup {EvaluateEv, ClearEv} :
       Computable(State, e) =>
         LET s == calculatorReducer(State, e)
         IN  (s # State \/ e = ClearEv) =>
               /\ s.overwrite
               /\ \A d \in DigitChars \cup {"."} :
                    LET t == calculatorReducer(s, AddDigitEv(d))
                    IN  t.currentValue = <<d>> /\ ~t.overwrite

\* Evaluate has just computed 10 (5 + 5), which the digit keys of the model
\* cannot type, and left overwrite set
C12_Witness ==
  /\ lastAction = EvaluateEv
  /\ currentValue = <<"1", "0">>
  /\ previousValue = <<>> /\ operation = null
  /\ overwrite

\* ---- C13 -----------------------------------------------------------------
\* the malformed inputs other than Delete return the state unchanged: a
\* second decimal point, an operator before anything is entered, Evaluate
\* with no pending operation
MalformedInputsAreNoOps ==
  /\ (~overwrite /\ includes(currentValue, ".")) =>
       calculatorReducer(State, AddDigitEv(".")) = State
  /\ (currentValue = <<"0">> /\ previousValue = <<>>) =>
       \A op \in Operations : calculatorReducer(State, ChooseEv(op)) = State
  /\ operation = null => calculatorReducer(State, EvaluateEv) = State

\* C13 as stated: malformed inputs (a duplicate decimal point, an operator
\* before anything is entered, Evaluate with no pending operation, Delete
\* when the display shows "0") return the state unchanged in all four fields,
\* overwrite included.
C13_MalformedInputsUnchanged ==
  /\ MalformedInputsAreNoOps
  /\ currentValue = <<"0">> => calculatorReducer(State, DeleteEv) = State

\* C13 as amended: the first three return the state unchanged; Delete when
\* the display shows "0" leaves currentValue, previousValue and operation
\* unchanged and leaves overwrite true, so it changes overwrite when the "0"
\* was typed.
C13_MalformedInputsAmended ==
  /\ MalformedInputsAreNoOps
  /\ currentValue = <<"0">> =>
       calculatorReducer(State, DeleteEv) = [State EXCEPT !.overwrite = TRUE]

\* Delete was dispatched on a display of "0" with an operation pending
C13_Witness ==
  /\ lastAction = DeleteEv
  /\ currentValue = <<"0">> /\ overwrite
  /\ operation # null /\ previousValue # <<>>

\* ---- C14 -----------------------------------------------------------------
\* s is an integer literal: digits only, after an optional minus sign
IsIntegerString(s) ==
  LET b == IF Len(s) >= 1 /\ s[1] = "-" THEN 2 ELSE 1
  IN  Len(s) >= b /\ \A i \in b..Len(s) : s[i] \in DigitChars

\* the integer an integer literal denotes
IntegerOf(s) ==
  IF s[1] = "-" THEN 0 - DigitsToNat(Tail(s)) ELSE DigitsToNat(s)

\* the decimal string of an integer
IntegerString(n) ==
  IF n < 0 THEN <<"-">> \o NatToString(0 - n) ELSE NatToString(n)

\* some event makes the reducer call calculate on the state
EvaluatorInvoked ==
  \E e \in {EvaluateEv} \cup {ChooseEv(op) : op \in Operations} :
    CallsCalculate(State, e)

\* the evaluator's results on operands that are not a division by zero:
\* the decimal string of the arithmetic result, which on integer operands is
\* that of prev + cur, prev - cur, prev * cur
ArithmeticResults ==
  (/\ EvaluatorInvoked
   /\ ~(operation = "÷" /\ IsZero(parseFloat(currentValue)))
   /\ ~isNaN(parseFloat(previousValue)) /\ ~isNaN(parseFloat(currentValue))
   /\ CalcInRange(State, MaxAbs))
  => /\ IsNumericLiteral(calculate(State))
     /\ (IsIntegerString(previousValue) /\ IsIntegerString(currentValue)) =>
          LET p == IntegerOf(previousValue)
              c == IntegerOf(currentValue)
          IN  /\ operation = "+" => calculate(State) = IntegerString(p + c)
              /\ operation = "-" => calculate(State) = IntegerString(p - c)
              /\ operation = "×" => calculate(State) = IntegerString(p * c)

\* C14: whenever the evaluator is invoked with ÷ pending and a currentValue
\* that parses to zero it returns "Error"; for every other pair of operands
\* that parse as numbers it returns the decimal string of the arithmetic
\* result, which on integer operands is prev+cur, prev-cur or prev*cur.
C14_EvaluatorResults ==
  /\ (/\ EvaluatorInvoked
      /\ operation = "÷"
      /\ IsZero(parseFloat(currentValue)))
     => calculate(State) = <<"E", "r", "r", "o", "r">>
  /\ ArithmeticResults

\* the division by zero of C14 when the left operand parses as a number
DivisionByZeroOnNumbers ==
  (/\ EvaluatorInvoked
   /\ operation = "÷"
   /\ IsZero(parseFloat(currentValue))
   /\ ~isNaN(parseFloat(previousValue)))
  => calculate(State) = <<"E", "r", "r", "o", "r">>

\* ---- C15 -----------------------------------------------------------------
\* C15: whenever currentValue is "Error", overwrite is true, previousValue is
\* "" and operation is absent, so a following Digit(d) replaces it by d and
\* Clear returns the initial state; no reachable currentValue is "Error" with
\* characters appended or removed.
C15_ErrorIsOverwritten ==
  /\ currentValue = <<"E", "r", "r", "o", "r">> =>
       /\ overwrite /\ previousValue = <<>> /\ operation = null
       /\ \A d \in DigitChars \cup {"."} :
            LET t == calculatorReducer(State, AddDigitEv(d))
            IN  t.currentValue = <<d>> /\ ~t.overwrite
       /\ calculatorReducer(State, ClearEv)
            = [currentValue |-> <<"0">>, previousValue |-> <<>>,
               operation |-> null, overwrite |-> TRUE]
  /\ (\E i \in 1..Len(currentValue) : currentValue[i] \in {"E", "r", "o"}) =>
       currentValue = <<"E", "r", "r", "o", "r">>

\* Evaluate has just divided by a zero operand and displays "Error"
C15_Witness ==
  /\ lastAction = EvaluateEv
  /\ currentValue = <<"E", "r", "r", "o", "r">>

\* ---- C16 -----------------------------------------------------------------
\* C16: the evaluator's parse-failure fallback is unreachable: in no
\* reachable state is the evaluator invoked by Evaluate or ChooseOperation
\* with an operand that fails to parse as a number.
C16_ParseFallbackUnreachable ==
  EvaluatorInvoked =>
    /\ ~isNaN(parseFloat(previousValue))
    /\ ~isNaN(parseFloat(currentValue))

\* ---- C17 -----------------------------------------------------------------
\* the pending-operand line of the display: previousValue, a space and the
\* operation, of which null renders as nothing
PendingLine(state) ==
  state.previousValue \o <<" ">>
    \o (IF state.operation = null THEN <<>> ELSE <<state.operation>>)

\* a line that shows nothing
IsBlank(line) == \A i \in 1..Len(line) : line[i] = " "

\* C17: operation is absent if and only if previousValue is ""; hence the
\* fall-through branch of ChooseOperation (previousValue non-empty with no
\* pending operation) and the evaluator's unknown-operator branch are never
\* taken, and the pending-operand line is blank exactly when no operation is
\* pending.
C17_OperationIffPreviousValue ==
  /\ (operation = null) <=> (previousValue = <<>>)
  /\ ~( /\ ~(currentValue = <<"0">> /\ previousValue = <<>>)
        /\ previousValue # <<>>
        /\ operation = null )
  /\ EvaluatorInvoked => operation \in Operations
  /\ IsBlank(PendingLine(State)) <=> (operation = null)

\* Evaluate has just collapsed 5 ÷ 2 and cleared both the operand and the
\* operation
C17_Witness ==
  /\ lastAction = EvaluateEv
  /\ currentValue = <<"2", ".", "5">>
  /\ previousValue = <<>> /\ operation = null

\* ---- C18 -----------------------------------------------------------------
\* every Digit(d) and Delete maps the state to one with the same
\* previousValue and operation
DigitAndDeleteKeepPending ==
  \A e \in {AddDigitEv(d) : d \in DigitChars \cup {"."}} \cup {DeleteEv} :
    LET s == calculatorReducer(State, e)
    IN  s.previousValue = previousValue /\ s.operation = operation

\* a step that dispatches Digit(d) or Delete leaves previousValue and
\* operation as they were
DigitAndDeleteStep ==
  lastAction'.type \in {"ADD_DIGIT", "DELETE"} =>
    previousValue' = previousValue /\ operation' = operation

\* C18: Digit and Delete events never change previousValue or operation: for
\* every reachable state and every Digit(d) or Delete the successor state has
\* the same previousValue and the same operation.
C18_DigitDeleteFrame ==
  []DigitAndDeleteKeepPending /\ [][DigitAndDeleteStep]_vars

\* Delete removed a character of the right operand while an operation was
\* pending
C18_Witness ==
  /\ lastAction = DeleteEv
  /\ operation # null /\ previousValue # <<>>
  /\ ~overwrite

\* ---- C19 -----------------------------------------------------------------
\* C19: ChooseOperation(op) on a state with previousValue "" and a
\* currentValue other than "0" yields previousValue equal to the former
\* currentValue, operation op, currentValue "0" and overwrite true; a
\* state-changing Evaluate yields currentValue equal to the evaluator's
\* result, previousValue "", operation absent and overwrite true.
C19_FirstOperatorAndEvaluate ==
  /\ Run(initialState, <<AddDigitEv("5"), ChooseEv("×")>>)
       = [currentValue |-> <<"0">>, previousValue |-> <<"5">>,
          operation |-> "×", overwrite |-> TRUE]
  /\ Run(initialState, <<AddDigitEv("5"), ChooseEv("×"), AddDigitEv("2"),
                         EvaluateEv>>)
       = [currentValue |-> <<"1", "0">>, previousValue |-> <<>>,
          operation |-> null, overwrite |-> TRUE]
  /\ (previousValue = <<>> /\ currentValue # <<"0">>) =>
       \A op \in Operations :
         calculatorReducer(State, ChooseEv(op))
           = [currentValue |-> <<"0">>, previousValue |-> currentValue,
              operation |-> op, overwrite |-> TRUE]
  /\ Computable(State, EvaluateEv) =>
       LET s == calculatorReducer(State, EvaluateEv)
       IN  s # State =>
             s = [currentValue |-> calculate(State), previousValue |-> <<>>,
                  operation |-> null, overwrite |-> TRUE]

\* the typed operand 25 has just been moved into previousValue by the first
\* operator
C19_Witness ==
  /\ lastAction = ChooseEv("-")
  /\ previousValue = <<"2", "5">>
  /\ operation = "-"
  /\ currentValue = <<"0">> /\ overwrite

\* ---- C20 -----------------------------------------------------------------
\* C20: Evaluate is idempotent: from every reachable state Evaluate applied
\* twice yields the same state as Evaluate applied once, because a
\* state-changing Evaluate leaves operation absent and previousValue "".
C20_EvaluateIdempotent ==
  /\ Computable(State, EvaluateEv) =>
       LET s == calculatorReducer(State, EvaluateEv)
       IN  /\ Run(State, <<EvaluateEv, EvaluateEv>>) = s
           /\ s # State => (s.operation = null /\ s.previousValue = <<>>)
  /\ lastAction = EvaluateEv => calculatorReducer(State, EvaluateEv) = State

\* Evaluate has just computed 7 (2 + 5)
C20_Witness ==
  /\ lastAction = EvaluateEv
  /\ currentValue = <<"7">>
  /\ previousValue = <<>> /\ operation = null
  /\ overwrite

====
